---- MODULE Spec2Model ----
(***************************************************************************)
(* Model of the daily-belfast-news client: the create-post form            *)
(* (src/src/pages/CreatePost.tsx), the read pages (PostDetail.tsx,         *)
(* TagPosts.tsx) and the backend tables and constraints they run against   *)
(* (the SQL in src/src/App.tsx).                                           *)
(*                                                                         *)
(* Text is kept as a run-length encoded string: a sequence of runs         *)
(* [ch |-> c, n |-> k] standing for k copies of the character c.  The      *)
(* encoding is canonical (no empty run, no two adjacent runs of the same   *)
(* character), so equality of encodings is equality of the texts, and a    *)
(* text of 50001 characters is one run.                                    *)
(***************************************************************************)
EXTENDS Integers, Sequences, FiniteSets, TLC

----------------------------------------------------------------------------
(* Characters *)

Upper == {"A", "B"}
Lower == {"a", "b"}
Space == {" "}
Punct == {"!"}
Digit == {"1"}
Alphabet ==
  Upper \cup Lower \cup Digit \cup Space \cup Punct \cup {",", "-", "_"}

\* String.prototype.toLowerCase on one character
LowerOf(c) == IF c = "A" THEN "a" ELSE IF c = "B" THEN "b" ELSE c

\* the regex class \w
IsWord(c) == c \in Upper \cup Lower \cup Digit \cup {"_"}
\* the regex class \s, also what String.prototype.trim removes
IsSpace(c) == c \in Space

----------------------------------------------------------------------------
(* Run-length encoded strings *)

Run(c, k) == [ch |-> c, n |-> k]

\* Op applied to the value of v: a method call on a value already computed
Apply(Op(_), v) == CHOOSE r \in {Op(x) : x \in {v}} : TRUE

RECURSIVE Norm(_)
\* canonical form: drop empty runs, merge adjacent runs of one character
Norm(s) ==
  IF s = <<>> THEN <<>>
  ELSE IF Head(s).n = 0 THEN Norm(Tail(s))
  ELSE LET r == Norm(Tail(s)) IN
       IF r # <<>> /\ Head(r).ch = Head(s).ch
       THEN <<Run(Head(s).ch, Head(s).n + Head(r).n)>> \o Tail(r)
       ELSE <<Head(s)>> \o r

RECURSIVE StrLen(_)
\* String.prototype.length
StrLen(s) == IF s = <<>> THEN 0 ELSE Head(s).n + StrLen(Tail(s))

RECURSIVE DropWhile(_, _)
\* s without its leading runs of characters of the class cls
DropWhile(s, cls) ==
  IF s = <<>> THEN <<>>
  ELSE IF Head(s).ch \in cls THEN DropWhile(Tail(s), cls) ELSE s

RECURSIVE Reverse(_)
\* the runs of s in the opposite order
Reverse(s) ==
  IF s = <<>> THEN <<>> ELSE Append(Reverse(Tail(s)), Head(s))

\* remove the runs at both ends whose character is of the class cls
StripEnds(s, cls) ==
  LET Lead(t) == DropWhile(t, cls)
  IN Apply(Reverse, Apply(Lead, Apply(Reverse, Apply(Lead, s))))

\* String.prototype.trim
Trim(s) == StripEnds(s, Space)

RECURSIVE LowerRuns(_)
\* every run with its character in lower case
LowerRuns(s) ==
  IF s = <<>> THEN <<>>
  ELSE <<Run(LowerOf(Head(s).ch), Head(s).n)>> \o LowerRuns(Tail(s))

\* String.prototype.toLowerCase
ToLowerCase(s) == Apply(Norm, LowerRuns(s))

RECURSIVE Substring(_, _)
\* String.prototype.substring(0, k)
Substring(s, k) ==
  IF s = <<>> \/ k <= 0 THEN <<>>
  ELSE IF Head(s).n >= k THEN <<Run(Head(s).ch, k)>>
  ELSE <<Head(s)>> \o Substring(Tail(s), k - Head(s).n)

----------------------------------------------------------------------------
(* generateSlug *)

IsSlugKept(c) == IsWord(c) \/ IsSpace(c) \/ c = "-"
\* the characters of the class [\s_-]
SlugSep == Space \cup {"_", "-"}

\* .replace(/[^\w\s-]/g, '')
RemoveSpecial(s) == Apply(Norm, SelectSeq(s, LAMBDA r : IsSlugKept(r.ch)))

RECURSIVE CollapseSeps(_)
\* .replace(/[\s_-]+/g, '-'): every maximal stretch of separators becomes
\* one hyphen
CollapseSeps(s) ==
  IF s = <<>> THEN <<>>
  ELSE IF Head(s).ch \in SlugSep
       THEN <<Run("-", 1)>> \o CollapseSeps(DropWhile(s, SlugSep))
       ELSE <<Head(s)>> \o CollapseSeps(Tail(s))

\* a last replace that removes the trailing hyphens only
StripTrailingHyphens(s) == Reverse(DropWhile(Reverse(s), {"-"}))

\* .replace(/^-+|-+$/g, '')
StripHyphens(s) == StripEnds(s, {"-"})

\* the chain with its last two replaces in the other order
generateSlugStripFirst(text) ==
  Apply(CollapseSeps,
        Apply(StripHyphens,
              Apply(RemoveSpecial, Apply(Trim, Apply(ToLowerCase, text)))))

generateSlug(text) ==
  Apply(StripHyphens,
        Apply(CollapseSeps,
              Apply(RemoveSpecial, Apply(Trim, Apply(ToLowerCase, text)))))

----------------------------------------------------------------------------
(* tags.split(',').map(t => t.trim()).filter(t => t) *)

RECURSIVE SplitComma(_)
\* String.prototype.split(','): a run of k commas closes the current piece
\* and opens k - 1 empty pieces before the next one
SplitComma(s) ==
  IF s = <<>> THEN << <<>> >>
  ELSE LET rest == SplitComma(Tail(s)) IN
       IF Head(s).ch = ","
       THEN << <<>> >> \o [k \in 1..(Head(s).n - 1) |-> <<>>] \o rest
       ELSE << <<Head(s)>> \o Head(rest) >> \o Tail(rest)

RECURSIVE TrimAll(_)
\* .map(t => t.trim())
TrimAll(pieces) ==
  IF pieces = <<>> THEN <<>>
  ELSE <<Trim(Head(pieces))>> \o TrimAll(Tail(pieces))

TagNamesOf(tagsText) ==
  SelectSeq(Apply(TrimAll, Apply(SplitComma, tagsText)), LAMBDA t : t # <<>>)

\* a text written out character by character
Str(chars) == Norm([k \in 1..Len(chars) |-> Run(chars[k], 1)])

----------------------------------------------------------------------------
(* The form and its validation (postSchema) *)

TitleMax == 200
ContentMax == 50000
ExcerptMax == 500
TagsMax == 200
ExcerptCut == 200

NoImage == "noimage"
NoUser == "nouser"
Null == "null"
\* no row identifier (let tagId; postData before the insert)
NoId == <<>>
\* let imageUrl = null
NoUrl == <<>>

\* a required field checked as typed, without .trim()
RequiredIssuesNoTrim(text, limit, emptyMsg, longMsg) ==
  IF StrLen(text) < 1 THEN <<emptyMsg>>
  ELSE IF StrLen(text) > limit THEN <<longMsg>>
  ELSE <<>>

\* the issues of z.string().trim().min(1).max(limit)
RequiredIssues(text, limit, emptyMsg, longMsg) ==
  IF StrLen(Trim(text)) < 1 THEN <<emptyMsg>>
  ELSE IF StrLen(Trim(text)) > limit THEN <<longMsg>>
  ELSE <<>>

\* z.string().trim().max(limit).optional()
OptionalIssues(text, limit, longMsg) ==
  IF StrLen(Trim(text)) > limit THEN <<longMsg>> ELSE <<>>

\* the issues postSchema.parse raises, in the order of the schema's keys
Issues(f) ==
  RequiredIssues(f.title, TitleMax, "Title is required",
                 "Title must be less than 200 characters")
  \o RequiredIssues(f.content, ContentMax, "Content is required",
                    "Content is too long")
  \o OptionalIssues(f.excerpt, ExcerptMax,
                    "Excerpt must be less than 500 characters")
  \o OptionalIssues(f.tags, TagsMax, "Tags must be less than 200 characters")

\* the value postSchema.parse returns: every field trimmed
Parsed(f) ==
  [title |-> Trim(f.title), content |-> Trim(f.content),
   excerpt |-> Trim(f.excerpt), tags |-> Trim(f.tags)]

NoData == [title |-> <<>>, content |-> <<>>, excerpt |-> <<>>, tags |-> <<>>]

----------------------------------------------------------------------------
(* Inputs *)

\* the longest tag list a form carries
MaxTagNames == 2
\* the values Date.now() takes
MaxTime == 1

Sessions == {1, 2}
Users == {"u1", "u2"}
Times == 1..MaxTime
UserOf == [c \in Sessions |-> IF c = 1 THEN "u1" ELSE "u2"]
\* who is signed in on each page: its own user, or nobody
Identities == {u \in [Sessions -> Users \cup {NoUser}] :
                 \A c \in Sessions : u[c] \in {UserOf[c], NoUser}}
Files == {"jpg"}

Titles ==
  { Str(<<"A", " ", "b">>), Str(<<"a", "-", "b", "!">>), <<Run(" ", 2)>>, <<Run("a", TitleMax + 1)>>,
    <<Run(" ", 1), Run("!", TitleMax), Run(" ", 1)>> }
Contents ==
  { <<Run("b", ContentMax)>>, <<>>, <<Run(" ", 3)>>,
    <<Run("b", ContentMax + 1)>> }
Excerpts ==
  { <<>>, <<Run("a", ExcerptMax)>>, <<Run("a", ExcerptMax + 1)>> }
TagTexts ==
  { t \in { <<>>, Str(<<"A", ",", " ", "b">>), Str(<<"a", ",", "A">>), Str(<<"A", ",", "A", ",", "b">>),
            Str(<<" ", ",", " ">>), <<Run("a", TagsMax + 1)>> } :
      Len(TagNamesOf(t)) <= MaxTagNames }
Images == {NoImage} \cup Files

BaseForm ==
  [title |-> Str(<<"A", " ", "b">>), content |-> <<Run("b", ContentMax)>>,
   excerpt |-> <<>>, tags |-> Str(<<"A", ",", " ", "b">>), image |-> NoImage]

AllForms ==
  [title : Titles, content : Contents, excerpt : Excerpts, tags : TagTexts,
   image : Images]

\* the forms submitted: the base form with at most one field changed
Forms ==
  { f \in AllForms :
      Cardinality({k \in DOMAIN BaseForm : f[k] # BaseForm[k]}) <= 1 }

----------------------------------------------------------------------------
(* State *)

VARIABLES
  \* the backend: tables posts, tags, post_tags and the post-images bucket
  posts, tags, post_tags, storage,
  \* one CreatePost page per session: the identity of useAuth(), the place
  \* handleSubmit has reached, and its state and locals
  user, pc, loading, toast, error, validationData, image, imageUrl,
  postData, idx, tagId,
  \* the backend calls each session has made, in order
  log,
  \* the reader: the identity of its session, the PostDetail page (route
  \* parameter, post, loading) and the TagPosts page (route parameter, posts,
  \* tagName, loading, and tagData between its two queries)
  viewer, detailPc, detailSlug, detailPost, detailLoading,
  tagPc, tagPageSlug, tagPagePosts, tagPageName, tagPageLoading, tagData,
  \* how the last query of each page ended
  detailLast, tagLast,
  \* the Admin page: the identity and the isAdmin flag of useAuth(), the
  \* place the page has reached, its state posts and loading, the last
  \* toast, and the handleDeletePost calls whose request is on its way
  adminUser, isAdmin, adminPc, adminPosts, adminLoading, adminToast,
  deleting,
  \* the last update or delete request the backend received: who sent it
  \* and for which post
  lastReq,
  \* the posts fetchData loaded and the posts whose deletion was reported
  \* as done
  loaded, deleted,
  \* a caller of generateSlug: the argument, the value returned and the
  \* number of calls made
  slugText, slugResult, slugCalls

dbVars == <<posts, tags, post_tags, storage>>
formVars == <<validationData, image>>
tagVars == <<idx, tagId>>
createVars == <<user, pc, loading, toast, error, validationData, image,
                imageUrl, postData, idx, tagId, log>>
detailVars == <<detailPc, detailSlug, detailPost, detailLoading, detailLast>>
tagPageVars == <<tagPc, tagPageSlug, tagPagePosts, tagPageName,
                 tagPageLoading, tagData, tagLast>>
readVars == <<viewer, detailVars, tagPageVars>>
adminVars == <<adminUser, isAdmin, adminPc, adminPosts, adminLoading,
               adminToast, deleting, lastReq, loaded, deleted>>
slugVars == <<slugText, slugResult, slugCalls>>
sideVars == <<adminVars, slugVars>>
vars == <<dbVars, createVars, readVars, sideVars>>

----------------------------------------------------------------------------
(* The backend: constraints and policies of the tables *)

\* a posts table without UNIQUE on slug
CanInsertPostNoUnique(row, uid) == uid = row.author_id

\* posts: slug TEXT UNIQUE; policy posts_insert: auth.uid() = author_id
CanInsertPost(row, uid) ==
  /\ \A p \in posts : p.slug # row.slug
  /\ uid = row.author_id

\* a tags table that enforces no uniqueness
CanInsertTagNoUnique(name, slug, uid) == uid # NoUser

\* tags: name TEXT UNIQUE, slug TEXT UNIQUE; policy tags_insert:
\* auth.uid() IS NOT NULL
CanInsertTag(name, slug, uid) ==
  /\ \A t \in tags : t.name # name /\ t.slug # slug
  /\ uid # NoUser

\* a post_tags table without UNIQUE(post_id, tag_id)
CanInsertLinkNoUnique(postId, tag, uid) ==
  /\ \E p \in posts : p.id = postId
  /\ \E t \in tags : t.id = tag
  /\ uid # NoUser

\* post_tags: both references exist, UNIQUE(post_id, tag_id); policy
\* post_tags_all: auth.uid() IS NOT NULL
CanInsertLink(postId, tag, uid) ==
  /\ \E p \in posts : p.id = postId
  /\ \E t \in tags : t.id = tag
  /\ \A l \in post_tags : ~(l.post_id = postId /\ l.tag_id = tag)
  /\ uid # NoUser

\* storage.upload without upsert: the path must be new; policy
\* post_images_insert: auth.uid() IS NOT NULL
CanUpload(fileName, uid) == fileName \notin {o.name : o \in storage} /\ uid # NoUser

\* .maybeSingle(): the data is the row when exactly one matches and null
\* otherwise, written as a sequence of at most one row
MaybeSingle(rows) ==
  IF Cardinality(rows) = 1 THEN <<CHOOSE r \in rows : TRUE>> ELSE <<>>

\* id UUID DEFAULT gen_random_uuid(): an identifier no other row has; the
\* row a session inserts is named after the session and its place in it
PostId(c) == <<"post", c>>
TagId(c, k) == <<"tag", c, k>>
LinkId(c, k) == <<"link", c, k>>

\* storage.getPublicUrl
PublicUrl(fileName) == <<"post-images", fileName>>

----------------------------------------------------------------------------
(* handleSubmit *)

slug(c) == generateSlug(validationData[c].title)
tagNames(c) == TagNamesOf(validationData[c].tags)
tagName(c) == tagNames(c)[idx[c]]
tagSlug(c) == generateSlug(tagName(c))
postExcerpt(c) ==
  IF validationData[c].excerpt # <<>> THEN validationData[c].excerpt
  ELSE Substring(validationData[c].content, ExcerptCut)

Logged(c, op, arg, ok, fault) ==
  log' = [log EXCEPT ![c] = Append(@, [op |-> op, arg |-> arg, ok |-> ok,
                                       fault |-> fault])]

\* a catch block that undoes what the session has written so far
ThrowRollback(c, e) ==
  /\ pc' = [pc EXCEPT ![c] = "failed"]
  /\ error' = [error EXCEPT ![c] = e]
  /\ toast' = [toast EXCEPT ![c] = "Failed to create post"]
  /\ loading' = [loading EXCEPT ![c] = FALSE]
  /\ posts' = {p \in posts : p.id # postData[c]}
  /\ post_tags' = {l \in post_tags : l.post_id # postData[c]}
  /\ storage' = {o \in storage : PublicUrl(o.name) # imageUrl[c]}
  /\ UNCHANGED tags

\* catch (error) { console.error(...); toast.error('Failed to create post') }
\* finally { setLoading(false) }: the failed request wrote nothing and the
\* handler deletes nothing
Throw(c, e) ==
  /\ pc' = [pc EXCEPT ![c] = "failed"]
  /\ error' = [error EXCEPT ![c] = e]
  /\ toast' = [toast EXCEPT ![c] = "Failed to create post"]
  /\ loading' = [loading EXCEPT ![c] = FALSE]
  /\ UNCHANGED dbVars

\* an end of the handler that does not reset loading
FinishLoading(c) ==
  /\ pc' = [pc EXCEPT ![c] = "success"]
  /\ toast' = [toast EXCEPT ![c] = "Post created successfully!"]
  /\ UNCHANGED <<loading, error>>

\* toast.success, navigate, finally { setLoading(false) }
Finish(c) ==
  /\ pc' = [pc EXCEPT ![c] = "success"]
  /\ toast' = [toast EXCEPT ![c] = "Post created successfully!"]
  /\ loading' = [loading EXCEPT ![c] = FALSE]
  /\ UNCHANGED error

\* the form is submitted: the user check, setLoading(true), postSchema.parse,
\* and the first backend request is on its way
Submit(c, f) ==
  /\ pc[c] = "idle"
  /\ UNCHANGED <<dbVars, imageUrl, postData, tagVars, user, log, readVars,
                 sideVars>>
  /\ IF user[c] = NoUser
     THEN /\ pc' = [pc EXCEPT ![c] = "returned"]
          /\ UNCHANGED <<loading, toast, error, formVars>>
     ELSE IF Issues(f) # <<>>
     THEN /\ pc' = [pc EXCEPT ![c] = "failed"]
          /\ error' = [error EXCEPT ![c] = "ZodError"]
          /\ toast' = [toast EXCEPT ![c] = Issues(f)[1]]
          /\ loading' = [loading EXCEPT ![c] = FALSE]
          /\ UNCHANGED formVars
     ELSE /\ validationData' = [validationData EXCEPT ![c] = Parsed(f)]
          /\ image' = [image EXCEPT ![c] = f.image]
          /\ loading' = [loading EXCEPT ![c] = TRUE]
          /\ pc' = [pc EXCEPT ![c] =
                      IF f.image # NoImage THEN "upload" ELSE "insertPost"]
          /\ UNCHANGED <<toast, error>>

\* supabase.storage.from('post-images').upload(fileName, image); up is
\* whether backend and transport serve this request
UploadImage(c, now, up) ==
  /\ pc[c] = "upload"
  /\ LET fileName == <<user[c], now, image[c]>>
         ok == up /\ CanUpload(fileName, user[c])
     IN /\ Logged(c, "upload", fileName, ok, ~up)
        /\ IF ok
           THEN /\ storage' = storage \cup {[name |-> fileName, owner |-> user[c]]}
                /\ imageUrl' = [imageUrl EXCEPT ![c] = PublicUrl(fileName)]
                /\ pc' = [pc EXCEPT ![c] = "insertPost"]
                /\ UNCHANGED <<posts, tags, post_tags, loading, toast, error>>
           ELSE /\ Throw(c, "uploadError")
                /\ UNCHANGED imageUrl
  /\ UNCHANGED <<user, formVars, postData, tagVars, readVars, sideVars>>

\* supabase.from('posts').insert({...}).select().single()
InsertPost(c, up) ==
  /\ pc[c] = "insertPost"
  /\ LET row == [id |-> PostId(c), title |-> validationData[c].title,
                 slug |-> slug(c), content |-> validationData[c].content,
                 excerpt |-> postExcerpt(c), featured_image |-> imageUrl[c],
                 author_id |-> user[c], published |-> TRUE]
         ok == up /\ CanInsertPost(row, user[c])
     IN /\ Logged(c, "insertPost", row.slug, ok, ~up)
        /\ IF ~ok
           THEN /\ Throw(c, "postError")
                /\ UNCHANGED <<postData, idx>>
           ELSE /\ posts' = posts \cup {row}
                /\ postData' = [postData EXCEPT ![c] = row.id]
                /\ UNCHANGED <<tags, post_tags, storage>>
                /\ IF validationData[c].tags # <<>> /\ tagNames(c) # <<>>
                   THEN /\ idx' = [idx EXCEPT ![c] = 1]
                        /\ pc' = [pc EXCEPT ![c] = "lookupTag"]
                        /\ UNCHANGED <<loading, toast, error>>
                   ELSE /\ Finish(c)
                        /\ UNCHANGED idx
  /\ UNCHANGED <<user, formVars, imageUrl, tagId, readVars, sideVars>>

\* a lookup that goes on to the link although no tag was found
LookupTagUnresolved(c, up) ==
  /\ pc[c] = "lookupTag"
  /\ LET existingTag ==
           IF up THEN MaybeSingle({t \in tags : t.slug = tagSlug(c)}) ELSE <<>>
     IN /\ Logged(c, "lookupTag", tagSlug(c), up, ~up)
        /\ tagId' = [tagId EXCEPT ![c] =
                       IF existingTag # <<>> THEN existingTag[1].id ELSE NoId]
        /\ pc' = [pc EXCEPT ![c] = "linkTag"]
  /\ UNCHANGED <<dbVars, user, loading, toast, error, formVars, imageUrl,
                 postData, idx, readVars, sideVars>>

\* a lookup by the name as typed, .eq('name', tagName)
LookupTagByName(c, up) ==
  /\ pc[c] = "lookupTag"
  /\ LET existingTag ==
           IF up THEN MaybeSingle({t \in tags : t.name = tagName(c)}) ELSE <<>>
     IN /\ Logged(c, "lookupTag", tagSlug(c), up, ~up)
        /\ IF existingTag # <<>>
           THEN /\ tagId' = [tagId EXCEPT ![c] = existingTag[1].id]
                /\ pc' = [pc EXCEPT ![c] = "linkTag"]
           ELSE /\ tagId' = [tagId EXCEPT ![c] = NoId]
                /\ pc' = [pc EXCEPT ![c] = "insertTag"]
  /\ UNCHANGED <<dbVars, user, loading, toast, error, formVars, imageUrl,
                 postData, idx, readVars, sideVars>>

\* let tagId; supabase.from('tags').select('id').eq('slug', tagSlug)
\* .maybeSingle(); only data is read, an error leaves existingTag null
LookupTag(c, up) ==
  /\ pc[c] = "lookupTag"
  /\ LET existingTag ==
           IF up THEN MaybeSingle({t \in tags : t.slug = tagSlug(c)}) ELSE <<>>
     IN /\ Logged(c, "lookupTag", tagSlug(c), up, ~up)
        /\ IF existingTag # <<>>
           THEN /\ tagId' = [tagId EXCEPT ![c] = existingTag[1].id]
                /\ pc' = [pc EXCEPT ![c] = "linkTag"]
           ELSE /\ tagId' = [tagId EXCEPT ![c] = NoId]
                /\ pc' = [pc EXCEPT ![c] = "insertTag"]
  /\ UNCHANGED <<dbVars, user, loading, toast, error, formVars, imageUrl,
                 postData, idx, readVars, sideVars>>

\* a tag insert whose error is not thrown: the loop goes on without a tag
InsertTagContinue(c, up) ==
  /\ pc[c] = "insertTag"
  /\ LET row == [id |-> TagId(c, idx[c]), name |-> tagName(c),
                 slug |-> tagSlug(c)]
         ok == up /\ CanInsertTag(row.name, row.slug, user[c])
     IN /\ Logged(c, "insertTag", row.slug, ok, ~up)
        /\ tags' = IF ok THEN tags \cup {row} ELSE tags
        /\ tagId' = [tagId EXCEPT ![c] = IF ok THEN row.id ELSE NoId]
        /\ pc' = [pc EXCEPT ![c] = "linkTag"]
  /\ UNCHANGED <<posts, post_tags, storage, loading, toast, error, user,
                 formVars, imageUrl, postData, idx, readVars, sideVars>>

\* supabase.from('tags').insert({ name: tagName, slug: tagSlug }).select()
\* .single(); if (tagError) throw tagError
InsertTag(c, up) ==
  /\ pc[c] = "insertTag"
  /\ LET row == [id |-> TagId(c, idx[c]), name |-> tagName(c),
                 slug |-> tagSlug(c)]
         ok == up /\ CanInsertTag(row.name, row.slug, user[c])
     IN /\ Logged(c, "insertTag", row.slug, ok, ~up)
        /\ IF ok
           THEN /\ tags' = tags \cup {row}
                /\ tagId' = [tagId EXCEPT ![c] = row.id]
                /\ pc' = [pc EXCEPT ![c] = "linkTag"]
                /\ UNCHANGED <<posts, post_tags, storage, loading, toast,
                               error>>
           ELSE /\ Throw(c, "tagError")
                /\ UNCHANGED tagId
  /\ UNCHANGED <<user, formVars, imageUrl, postData, idx, readVars, sideVars>>

\* await supabase.from('post_tags').insert({ post_id, tag_id }); the result
\* is not read; then the next tag, or the end of the loop
LinkTag(c, up) ==
  /\ pc[c] = "linkTag"
  /\ LET row == [id |-> LinkId(c, idx[c]), post_id |-> postData[c],
                 tag_id |-> tagId[c]]
         ok == up /\ CanInsertLink(postData[c], tagId[c], user[c])
     IN /\ Logged(c, "linkTag", tagId[c], ok, ~up)
        /\ post_tags' = IF ok THEN post_tags \cup {row} ELSE post_tags
  /\ IF idx[c] < Len(tagNames(c))
     THEN /\ idx' = [idx EXCEPT ![c] = @ + 1]
          /\ pc' = [pc EXCEPT ![c] = "lookupTag"]
          /\ UNCHANGED <<loading, toast, error>>
     ELSE /\ Finish(c)
          /\ UNCHANGED idx
  /\ UNCHANGED <<posts, tags, storage, user, formVars, imageUrl, postData,
                 tagId, readVars, sideVars>>

----------------------------------------------------------------------------
(* Specification of post creation *)

\* the CreatePost pages before a submission
InitCreate(u) ==
  /\ user = u
  /\ pc = [c \in Sessions |-> "idle"]
  /\ loading = [c \in Sessions |-> FALSE]
  /\ toast = [c \in Sessions |-> Null]
  /\ error = [c \in Sessions |-> Null]
  /\ validationData = [c \in Sessions |-> NoData]
  /\ image = [c \in Sessions |-> NoImage]
  /\ imageUrl = [c \in Sessions |-> NoUrl]
  /\ postData = [c \in Sessions |-> NoId]
  /\ idx = [c \in Sessions |-> 0]
  /\ tagId = [c \in Sessions |-> NoId]
  /\ log = [c \in Sessions |-> <<>>]

\* the read pages before they are opened
InitRead(v) ==
  /\ viewer = v
  /\ detailPc = "closed" /\ detailSlug = <<>> /\ detailPost = <<>>
  /\ detailLoading = TRUE /\ detailLast = "none"
  /\ tagPc = "closed" /\ tagPageSlug = <<>> /\ tagPagePosts = {}
  /\ tagPageName = <<>> /\ tagPageLoading = TRUE /\ tagData = <<>>
  /\ tagLast = "none"

\* no update or delete request received yet
NoReq == [uid |-> NoUser, id |-> NoId]

\* the Admin page before it is opened
InitAdmin(u, b) ==
  /\ adminUser = u /\ isAdmin = b
  /\ adminPc = "closed" /\ adminPosts = {} /\ adminLoading = TRUE
  /\ adminToast = Null /\ deleting = {} /\ lastReq = NoReq
  /\ loaded = {} /\ deleted = {}

\* no call of generateSlug made yet on the text
InitSlug(text) ==
  /\ slugText = text /\ slugResult = <<>> /\ slugCalls = 0

InitSide == InitAdmin(NoUser, FALSE) /\ InitSlug(<<>>)

Init ==
  /\ posts = {} /\ tags = {} /\ post_tags = {} /\ storage = {}
  /\ \E u \in Identities : InitCreate(u)
  /\ InitRead(NoUser)
  /\ InitSide

Next ==
  \E c \in Sessions :
    \/ \E f \in Forms : Submit(c, f)
    \/ \E now \in Times, up \in BOOLEAN : UploadImage(c, now, up)
    \/ \E up \in BOOLEAN : InsertPost(c, up)
    \/ \E up \in BOOLEAN : LookupTag(c, up)
    \/ \E up \in BOOLEAN : InsertTag(c, up)
    \/ \E up \in BOOLEAN : LinkTag(c, up)

Spec == Init /\ [][Next]_vars

----------------------------------------------------------------------------
(* Properties of post creation *)

Terminal(c) == pc[c] \in {"success", "failed"}
Calls(c) == DOMAIN log[c]
CallsOf(c, op) == {k \in Calls(c) : log[c][k].op = op}
\* the tags of slug s a post is linked to, one element per link
LinksOf(postId, s) ==
  {l \in post_tags :
     l.post_id = postId /\ \E t \in tags : t.id = l.tag_id /\ t.slug = s}
SlugsOf(names) == {generateSlug(names[k]) : k \in DOMAIN names}

\* C1: a backend step that fails - upload, post insert, tag lookup, tag
\* insert or link insert - is the last step of its creation, which is then
\* in the failed state with that step's error.
C1_FailureAborts ==
  \A c \in Sessions : \A k \in Calls(c) :
    ~log[c][k].ok =>
      /\ k = Len(log[c])
      /\ pc[c] = "failed"
      /\ error[c] \in {"uploadError", "postError", "tagError"}

\* C2: two creations that both inserted their post and both name the same
\* tag, with every request served by backend and transport, both end in
\* success with their posts linked to the one tag of that slug.
C2_BothLinked ==
  \A c1, c2 \in Sessions :
    ( /\ c1 # c2
      /\ Terminal(c1) /\ Terminal(c2)
      /\ postData[c1] # NoId /\ postData[c2] # NoId
      /\ \A k \in Calls(c1) : ~log[c1][k].fault
      /\ \A k \in Calls(c2) : ~log[c2][k].fault ) =>
    \A n \in {tagNames(c1)[k] : k \in DOMAIN tagNames(c1)}
             \cap {tagNames(c2)[k] : k \in DOMAIN tagNames(c2)} :
      /\ pc[c1] = "success" /\ pc[c2] = "success"
      /\ \E t \in tags :
           /\ t.slug = generateSlug(n)
           /\ \E l \in post_tags : l.post_id = postData[c1] /\ l.tag_id = t.id
           /\ \E l \in post_tags : l.post_id = postData[c2] /\ l.tag_id = t.id

\* C3: no two rows of the tags table have the same slug.
C3_TagSlugUnique ==
  \A t1, t2 \in tags : t1.slug = t2.slug => t1 = t2

\* two sessions asked to insert a tag of one slug, with backend and
\* transport up: one insert went through, the other was refused
C3_Witness ==
  \E c1, c2 \in Sessions : \E k1 \in CallsOf(c1, "insertTag") :
    \E k2 \in CallsOf(c2, "insertTag") :
      /\ c1 # c2
      /\ log[c1][k1].arg = log[c2][k2].arg
      /\ log[c1][k1].ok
      /\ ~log[c2][k2].ok /\ ~log[c2][k2].fault

\* C4: a tag insert that fails ends the creation in the failed state with
\* the insert's error: it is the creation's last backend call, so no link for
\* the tag and no later tag follow, and the step that fails writes no row.
C4_TagInsertFailureAborts ==
  /\ [](\A c \in Sessions : \A k \in CallsOf(c, "insertTag") :
          ~log[c][k].ok =>
            /\ k = Len(log[c])
            /\ pc[c] = "failed" /\ error[c] = "tagError"
            /\ ~loading[c]
            /\ idx[c] = Cardinality(CallsOf(c, "lookupTag")))
  /\ [][\A c \in Sessions :
          (pc[c] = "insertTag" /\ pc'[c] = "failed") =>
            (tags' = tags /\ post_tags' = post_tags)]_vars

\* a creation refused the insert of its first tag because the other creation
\* had inserted that slug, with tags left in its list
C4_Witness ==
  \E c \in Sessions : \E k \in CallsOf(c, "insertTag") :
    /\ ~log[c][k].ok /\ ~log[c][k].fault
    /\ idx[c] < Len(tagNames(c))
    /\ pc[c] = "failed"

\* C5: in the failed state everything the creation wrote is still there: the
\* uploaded image, the post row, and every link it created.
C5_NoRollback ==
  \A c \in Sessions :
    pc[c] = "failed" =>
      /\ \A k \in CallsOf(c, "upload") :
           log[c][k].ok =>
             /\ \E o \in storage : o.name = log[c][k].arg
             /\ imageUrl[c] = PublicUrl(log[c][k].arg)
      /\ \A k \in CallsOf(c, "insertPost") :
           log[c][k].ok =>
             \E p \in posts :
               /\ p.id = postData[c] /\ p.slug = log[c][k].arg
               /\ p.featured_image = imageUrl[c]
      /\ \A k \in CallsOf(c, "linkTag") :
           log[c][k].ok =>
             \E l \in post_tags :
               l.post_id = postData[c] /\ l.tag_id = log[c][k].arg

\* a creation failed after its image, its post and a link were written, with
\* fewer links than its tag list has slugs
C5_Witness ==
  \E c \in Sessions :
    /\ pc[c] = "failed"
    /\ \E k \in CallsOf(c, "upload") : log[c][k].ok
    /\ \E k \in CallsOf(c, "linkTag") : log[c][k].ok
    /\ Cardinality({l \in post_tags : l.post_id = postData[c]})
         < Cardinality(SlugsOf(tagNames(c)))

\* the steps of a creation in the order of the state machine
TagSteps == {"lookupTag", "insertTag", "linkTag"}
Phase(p) ==
  CASE p = "idle" -> 0
    [] p = "upload" -> 1
    [] p = "insertPost" -> 2
    [] p \in TagSteps -> 3
    [] OTHER -> 4
\* the place in the tag loop: the tag's index, then lookup, insert, link
LoopPlace(p, k) ==
  3 * k + (CASE p = "lookupTag" -> 0 [] p = "insertTag" -> 1 [] OTHER -> 2)

\* C6: a creation moves forward only: idle, upload when an image is
\* selected, post insert, the tag loop, success.  The post insert follows a
\* successful upload when there is an image, the tag steps follow the
\* successful post insert, a link is inserted for a resolved tag, and no
\* earlier step is entered again.
C6_LinearOrder ==
  /\ [](\A c \in Sessions : \A k \in Calls(c) :
          /\ log[c][k].op = "upload" => k = 1 /\ image[c] # NoImage
          /\ log[c][k].op = "insertPost" =>
               IF image[c] # NoImage
               THEN k = 2 /\ log[c][1].op = "upload" /\ log[c][1].ok
               ELSE k = 1
          /\ log[c][k].op \in TagSteps =>
               \E j \in 1..(k - 1) : log[c][j].op = "insertPost" /\ log[c][j].ok
          /\ log[c][k].op = "linkTag" =>
               /\ log[c][k - 1].op \in {"lookupTag", "insertTag"}
               /\ log[c][k - 1].ok
               /\ \E t \in tags : t.id = log[c][k].arg)
  /\ [](\A c \in Sessions :
          pc[c] = "linkTag" =>
            \E t \in tags : t.id = tagId[c] /\ t.slug = tagSlug(c))
  /\ [][\A c \in Sessions :
          pc'[c] # pc[c] =>
            \/ pc'[c] = "failed"
            \/ pc[c] = "idle" /\ pc'[c] = "returned"
            \/ /\ Phase(pc'[c]) >= Phase(pc[c])
               /\ pc'[c] = "upload" => pc[c] = "idle" /\ image'[c] # NoImage
               /\ pc'[c] = "insertPost" =>
                    \/ pc[c] = "upload"
                    \/ pc[c] = "idle" /\ image'[c] = NoImage
               /\ pc'[c] \in TagSteps => pc[c] \in TagSteps \cup {"insertPost"}
               /\ pc'[c] = "success" => pc[c] \in {"insertPost", "linkTag"}
               /\ (pc[c] \in TagSteps /\ pc'[c] \in TagSteps) =>
                    LoopPlace(pc'[c], idx'[c]) > LoopPlace(pc[c], idx[c])]_vars

\* a creation went through every step: upload, post insert, and for its
\* second tag lookup, insert and link
C6_Witness ==
  \E c \in Sessions :
    /\ pc[c] = "success"
    /\ CallsOf(c, "upload") # {}
    /\ idx[c] = 2
    /\ \E k \in CallsOf(c, "insertTag") : k > 4

\* C7: a post has at most one link per tag slug.
C7_OneLinkPerSlug ==
  \A p \in posts : \A t \in tags : Cardinality(LinksOf(p.id, t.slug)) <= 1

\* a creation whose list names one slug twice succeeded; the backend refused
\* the second link and the post has one link for the slug
C7_Witness ==
  \E c \in Sessions :
    /\ pc[c] = "success"
    /\ Cardinality(SlugsOf(tagNames(c))) < Len(tagNames(c))
    /\ \E k \in CallsOf(c, "linkTag") : ~log[c][k].ok /\ ~log[c][k].fault
    /\ \A sl \in SlugsOf(tagNames(c)) :
         Cardinality(LinksOf(postData[c], sl)) = 1

ValidationMessages ==
  {"Title is required", "Title must be less than 200 characters",
   "Content is required", "Content is too long",
   "Excerpt must be less than 500 characters",
   "Tags must be less than 200 characters"}

\* the form breaks an input constraint
ViolatesConstraints(f) ==
  \/ Trim(f.title) = <<>> \/ Trim(f.content) = <<>>
  \/ StrLen(Trim(f.title)) > 200 \/ StrLen(Trim(f.content)) > 50000
  \/ StrLen(Trim(f.excerpt)) > 500 \/ StrLen(Trim(f.tags)) > 200

\* C8: submitting a form that breaks an input constraint ends in a
\* validation failure without a backend call: the tables and the bucket are
\* unchanged, and the session makes no call afterwards.
C8_ValidationIsLocal ==
  /\ [][\A c \in Sessions :
          (pc[c] = "idle" /\ pc'[c] # "idle" /\ user[c] # NoUser) =>
            \A f \in {g \in Forms : ViolatesConstraints(g)} :
              Submit(c, f) =>
                /\ pc'[c] = "failed" /\ error'[c] = "ZodError"
                /\ toast'[c] \in ValidationMessages
                /\ UNCHANGED dbVars
                /\ log'[c] = <<>>]_vars
  /\ [](\A c \in Sessions :
          error[c] = "ZodError" => pc[c] = "failed" /\ log[c] = <<>>)

\* a submission was refused for its tags text while the other session has
\* written a post
C8_Witness ==
  \E c \in Sessions :
    /\ error[c] = "ZodError"
    /\ toast[c] = "Tags must be less than 200 characters"
    /\ posts # {}

----------------------------------------------------------------------------
(* The read pages *)

Admin == "adm"
\* user_roles as handle_new_user fills it: the administrator's e-mail gets
\* the role admin, everyone else the role user
user_roles ==
  {[user_id |-> u, role |-> "user"] : u \in Users}
    \cup {[user_id |-> Admin, role |-> "admin"]}

has_role(uid, role) ==
  \E r \in user_roles : r.user_id = uid /\ r.role = role

\* policy posts_select
posts_select(p, uid) ==
  p.published \/ uid = p.author_id \/ has_role(uid, "admin")

\* the rows .eq('slug', slug).eq('published', true) leaves of what the
\* policy lets the reader see
DetailRows(s, uid) ==
  {p \in posts : posts_select(p, uid) /\ p.slug = s /\ p.published}

\* post_tags .eq('tag_id', id) with the embedded posts, mapped to the posts
\* and filtered for the ones the policy hides (null)
TagPageRows(tag, uid) ==
  {p \in posts :
     /\ posts_select(p, uid)
     /\ \E l \in post_tags : l.tag_id = tag /\ l.post_id = p.id}

\* what PostDetail renders
DetailRender ==
  IF detailLoading THEN "Loading post..."
  ELSE IF detailPost = <<>> THEN "Post Not Found"
  ELSE "article"

\* what TagPosts renders: the heading and the list
TagRender ==
  IF tagPageLoading THEN <<"Loading posts...">>
  ELSE << IF tagPageName # <<>> THEN "Posts tagged" ELSE "Tag not found",
          IF tagPagePosts = {} THEN "No posts found with this tag."
          ELSE "cards" >>

\* /posts/:slug is opened: the page mounts and fetchPost(slug) is on its way
\* (the router shows one page at a time)
OpenPost(s) ==
  /\ detailPc = "closed" /\ tagPc = "closed"
  /\ detailPc' = "fetching"
  /\ detailSlug' = s
  /\ detailPost' = <<>>
  /\ detailLoading' = TRUE
  /\ UNCHANGED <<detailLast, dbVars, createVars, sideVars, viewer,
                 tagPageVars>>

\* the route parameter changes on the mounted page: useEffect runs
\* fetchPost(slug) again, the state stays
ChangePost(s) ==
  /\ detailPc = "shown" /\ s # detailSlug
  /\ detailPc' = "fetching"
  /\ detailSlug' = s
  /\ UNCHANGED <<detailPost, detailLoading, detailLast, dbVars, createVars,
                 sideVars,
                 viewer, tagPageVars>>

\* fetchPost: the query returns; if (error) throw error; setPost(data);
\* catch logs; finally setLoading(false)
FetchPost(up) ==
  /\ detailPc = "fetching"
  /\ LET data == MaybeSingle(DetailRows(detailSlug, viewer))
     IN /\ detailPost' = IF up THEN data ELSE detailPost
        /\ detailLast' = IF ~up THEN "error"
                         ELSE IF data = <<>> THEN "nomatch" ELSE "found"
  /\ detailLoading' = FALSE
  /\ detailPc' = "shown"
  /\ UNCHANGED <<detailSlug, dbVars, createVars, sideVars, viewer,
                 tagPageVars>>

\* /tags/:slug is opened: the page mounts and fetchPostsByTag(slug) is on
\* its way
OpenTag(s) ==
  /\ tagPc = "closed" /\ detailPc = "closed"
  /\ tagPc' = "fetchingTag"
  /\ tagPageSlug' = s
  /\ tagPagePosts' = {} /\ tagPageName' = <<>> /\ tagPageLoading' = TRUE
  /\ UNCHANGED <<tagData, tagLast, dbVars, createVars, sideVars, viewer,
                 detailVars>>

\* the route parameter changes on the mounted page
ChangeTag(s) ==
  /\ tagPc = "shown" /\ s # tagPageSlug
  /\ tagPc' = "fetchingTag"
  /\ tagPageSlug' = s
  /\ UNCHANGED <<tagPagePosts, tagPageName, tagPageLoading, tagData, tagLast,
                 dbVars, createVars, sideVars, viewer, detailVars>>

\* fetchPostsByTag, first query: tags by slug, maybeSingle; an error is
\* thrown to the catch, no tag returns after setLoading(false), a tag sets
\* tagName and sends the second query
FetchTag(up) ==
  /\ tagPc = "fetchingTag"
  /\ LET data == MaybeSingle({t \in tags : t.slug = tagPageSlug})
     IN IF up /\ data # <<>>
        THEN /\ tagPageName' = data[1].name
             /\ tagData' = data
             /\ tagPc' = "fetchingPosts"
             /\ UNCHANGED <<tagPageLoading, tagLast>>
        ELSE /\ tagPageLoading' = FALSE
             /\ tagLast' = IF up THEN "nomatch" ELSE "error"
             /\ tagPc' = "shown"
             /\ UNCHANGED <<tagPageName, tagData>>
  /\ UNCHANGED <<tagPageSlug, tagPagePosts, dbVars, createVars, sideVars,
                 viewer,
                 detailVars>>

\* fetchPostsByTag, second query: post_tags of the tag with their posts
FetchTagPosts(up) ==
  /\ tagPc = "fetchingPosts"
  /\ tagPagePosts' =
       IF up THEN TagPageRows(tagData[1].id, viewer) ELSE tagPagePosts
  /\ tagLast' = IF up THEN "found" ELSE "error"
  /\ tagPageLoading' = FALSE
  /\ tagPc' = "shown"
  /\ UNCHANGED <<tagPageSlug, tagPageName, tagData, dbVars, createVars,
                 sideVars,
                 viewer, detailVars>>

----------------------------------------------------------------------------
(* Specification of the read pages, over the backend states of a small      *)
(* site                                                                    *)

Viewers == {NoUser, Admin} \cup Users

PostRow(k, title, author, published) ==
  [id |-> PostId(k), title |-> title, slug |-> generateSlug(title),
   content |-> <<Run("b", 1)>>, excerpt |-> <<Run("b", 1)>>,
   featured_image |-> NoUrl, author_id |-> author, published |-> published]

TagRow(k, name) ==
  [id |-> TagId(k, 1), name |-> name, slug |-> generateSlug(name)]

\* the posts a site holds: one post of each user, published or not
SitePosts ==
  { ps \in SUBSET ({PostRow(1, Str(<<"A", " ", "b">>), "u1", b) : b \in BOOLEAN}
                    \cup {PostRow(2, Str(<<"B">>), "u2", b) : b \in BOOLEAN}) :
      \A p1, p2 \in ps : p1.id = p2.id => p1 = p2 }
SiteTags == SUBSET {TagRow(1, Str(<<"A">>)), TagRow(2, Str(<<"b">>))}
SiteLinks(ps, ts) ==
  SUBSET {[id |-> LinkId(p.id[2], t.id[2]), post_id |-> p.id, tag_id |-> t.id] :
            p \in ps, t \in ts}

\* the slugs a reader asks for
ReadSlugs == {Str(<<"a", "-", "b">>), Str(<<"a">>), Str(<<"b">>)}

ReadInit ==
  /\ posts \in SitePosts
  /\ tags \in SiteTags
  /\ post_tags \in SiteLinks(posts, tags)
  /\ storage = {}
  /\ InitCreate([c \in Sessions |-> NoUser])
  /\ \E v \in Viewers : InitRead(v)
  /\ InitSide

ReadNext ==
  \/ \E s \in ReadSlugs : OpenPost(s)
  \/ \E s \in ReadSlugs : ChangePost(s)
  \/ \E up \in BOOLEAN : FetchPost(up)
  \/ \E s \in ReadSlugs : OpenTag(s)
  \/ \E s \in ReadSlugs : ChangeTag(s)
  \/ \E up \in BOOLEAN : FetchTag(up)
  \/ \E up \in BOOLEAN : FetchTagPosts(up)

SpecRead == ReadInit /\ [][ReadNext]_vars

----------------------------------------------------------------------------
(* Properties of the read pages *)

\* C9: a query that ends in a backend or transport error is not rendered as
\* the page renders a lookup that matches nothing ("Post Not Found"; "Tag
\* not found" over an empty list), and a lookup that matches nothing is.
C9_ErrorDistinctFromNotFound ==
  /\ (detailPc = "shown" /\ detailLast = "nomatch") =>
       DetailRender = "Post Not Found"
  /\ (detailPc = "shown" /\ detailLast = "error") =>
       DetailRender # "Post Not Found"
  /\ (tagPc = "shown" /\ tagLast = "error") =>
       TagRender # <<"Tag not found", "No posts found with this tag.">>

\* C10: asked for the slug of an unpublished post, the page shows "Post Not
\* Found" to a reader who is neither its author nor an administrator, and
\* the post to its author and to an administrator.
C10_UnpublishedVisibility ==
  \A p \in posts :
    (detailPc = "shown" /\ detailLast # "error" /\ detailSlug = p.slug
       /\ ~p.published) =>
      IF viewer = p.author_id \/ has_role(viewer, "admin")
      THEN detailPost = <<p>> /\ DetailRender = "article"
      ELSE detailPost = <<>> /\ DetailRender = "Post Not Found"

\* C11: once the listing of a slug that no post is linked under (the tag
\* has no link, or no tag has the slug) is shown after queries the backend
\* served, the list of posts is empty and the page says so.
C11_EmptyTagListing ==
  (/\ tagPc = "shown" /\ tagLast # "error"
   /\ ~\E t \in tags, l \in post_tags :
         t.slug = tagPageSlug /\ l.tag_id = t.id) =>
    /\ tagPagePosts = {}
    /\ TagRender[2] = "No posts found with this tag."

----------------------------------------------------------------------------
(* Specification of generateSlug: a caller passes a text, and then passes   *)
(* the value returned                                                      *)

\* the longest text passed
MaxSlugLen == 3

SlugTexts ==
  {Str(chars) : chars \in UNION {[1..n -> Alphabet] : n \in 0..MaxSlugLen}}

\* const slug = generateSlug(text)
CallSlug ==
  /\ slugCalls = 0
  /\ slugResult' = generateSlug(slugText)
  /\ slugCalls' = 1
  /\ UNCHANGED <<slugText, dbVars, createVars, readVars, adminVars>>

\* generateSlug(slug): the value returned is passed again
CallSlugOnResult ==
  /\ slugCalls = 1
  /\ slugText' = slugResult
  /\ slugResult' = generateSlug(slugResult)
  /\ slugCalls' = 2
  /\ UNCHANGED <<dbVars, createVars, readVars, adminVars>>

SlugInit ==
  /\ posts = {} /\ tags = {} /\ post_tags = {} /\ storage = {}
  /\ InitCreate([c \in Sessions |-> NoUser])
  /\ InitRead(NoUser)
  /\ InitAdmin(NoUser, FALSE)
  /\ \E text \in SlugTexts : InitSlug(text)

SlugNext == CallSlug \/ CallSlugOnResult

SpecSlug == SlugInit /\ [][SlugNext]_vars

\* the characters of a text
CharsOf(s) == {s[k].ch : k \in DOMAIN s}

\* C12: the value generateSlug returns consists of lowercase word
\* characters and hyphens, has no uppercase letter and neither starts nor
\* ends with a hyphen; for a text without a word character it is empty.
C12_SlugShape ==
  slugCalls >= 1 =>
    /\ \A c \in CharsOf(slugResult) : c = "-" \/ (IsWord(c) /\ c \notin Upper)
    /\ slugResult # <<>> =>
         slugResult[1].ch # "-" /\ slugResult[Len(slugResult)].ch # "-"
    /\ (\A c \in CharsOf(slugText) : ~IsWord(c)) => slugResult = <<>>

\* a text that starts with separators and has an uppercase letter and
\* punctuation was turned into a non-empty slug
C12_Witness ==
  /\ slugCalls = 1 /\ slugResult # <<>>
  /\ slugText # <<>> /\ slugText[1].ch \in SlugSep
  /\ CharsOf(slugText) \cap Upper # {} /\ CharsOf(slugText) \cap Punct # {}

\* C13: generateSlug applied to a value it returned returns that value.
C13_SlugIdempotent ==
  slugCalls = 2 => slugResult = slugText

\* a slug of two words was passed again
C13_Witness ==
  /\ slugCalls = 2 /\ "-" \in CharsOf(slugResult) /\ Len(slugResult) = 3

----------------------------------------------------------------------------
(* Further properties of post creation *)

\* C14: no two post rows share a slug, and the slug of a post row is
\* generateSlug of its title; an insert of a post whose slug a post row
\* already has is refused, and that creation ends in failed having made no
\* tag or link call and written no tag or link row.
C14_PostSlugUnique ==
  /\ [](/\ \A p1, p2 \in posts : p1.slug = p2.slug => p1 = p2
        /\ \A p \in posts : p.slug = generateSlug(p.title)
        /\ \A c \in Sessions :
             (pc[c] = "failed" /\ error[c] = "postError") =>
               /\ CallsOf(c, "lookupTag") \cup CallsOf(c, "insertTag")
                    \cup CallsOf(c, "linkTag") = {}
               /\ \A k \in 1..MaxTagNames :
                    /\ \A t \in tags : t.id # TagId(c, k)
                    /\ \A l \in post_tags : l.id # LinkId(c, k))
  /\ [][\A c \in Sessions :
          (/\ pc[c] = "insertPost" /\ pc'[c] # "insertPost"
           /\ \E p \in posts : p.slug = slug(c)) =>
            /\ pc'[c] = "failed" /\ error'[c] = "postError"
            /\ UNCHANGED <<posts, tags, post_tags>>]_vars

\* the backend, serving the request, refused a post whose title differs
\* from the title of the post that holds the slug
C14_Witness ==
  \E c \in Sessions :
    /\ pc[c] = "failed" /\ error[c] = "postError"
    /\ ~log[c][Len(log[c])].fault
    /\ \E p \in posts :
         p.slug = slug(c) /\ p.title # validationData[c].title

\* the tag rows that have the slug of the name session c is resolving under
\* another name: the same name in another casing or with other separators
CaseVariants(c) ==
  {t \in tags : t.slug = tagSlug(c) /\ t.name # tagName(c)}
\* the last call of session c was served by backend and transport
LastServed(c) == ~log'[c][Len(log'[c])].fault

C18_SuccessMeansLinked ==
  \A c \in Sessions :
    pc[c] = "success" =>
      /\ \E p \in posts : p.id = postData[c]
      /\ \A sl \in SlugsOf(tagNames(c)) : LinksOf(postData[c], sl) # {}

----------------------------------------------------------------------------
(* Post creation with backend calls that respond: each await of a session   *)
(* that is waiting for a response is eventually resumed                    *)

\* the response to the request session c is waiting for arrives
Respond(c) ==
  \/ \E now \in Times, up \in BOOLEAN : UploadImage(c, now, up)
  \/ \E up \in BOOLEAN : InsertPost(c, up)
  \/ \E up \in BOOLEAN : LookupTag(c, up)
  \/ \E up \in BOOLEAN : InsertTag(c, up)
  \/ \E up \in BOOLEAN : LinkTag(c, up)

\* the forms submitted here: the base form, a blank title, a title of
\* another slug, a tag list that repeats a slug, and an image
FairForms ==
  { BaseForm,
    [BaseForm EXCEPT !.title = <<Run(" ", 2)>>],
    [BaseForm EXCEPT !.title = <<Run(" ", 1), Run("!", TitleMax), Run(" ", 1)>>],
    [BaseForm EXCEPT !.tags = Str(<<"a", ",", "A">>)],
    [BaseForm EXCEPT !.image = "jpg"] }

FairNext ==
  \E c \in Sessions :
    \/ \E f \in FairForms : Submit(c, f)
    \/ Respond(c)

SpecFair ==
  Init /\ [][FairNext]_vars /\ \A c \in Sessions : WF_vars(Respond(c))

\* handleSubmit of session c is waiting for a response
Awaiting(c) ==
  pc[c] \in {"upload", "insertPost", "lookupTag", "insertTag", "linkTag"}

\* C20: a submission that is waiting for a response eventually is in
\* success or failed with loading false, and loading is false in every
\* success or failed state; a session with no signed-in user makes no
\* backend call, never has loading set and never leaves idle but to return.
C20_SubmissionTerminates ==
  /\ \A c \in Sessions : Awaiting(c) ~> (Terminal(c) /\ ~loading[c])
  /\ [](\A c \in Sessions :
          /\ Terminal(c) => ~loading[c]
          /\ user[c] = NoUser =>
               /\ log[c] = <<>> /\ ~loading[c]
               /\ pc[c] \in {"idle", "returned"})

\* one session ended in success after a call of its that failed, the other,
\* with nobody signed in, returned from its submission
C20_Witness ==
  \E c1, c2 \in Sessions :
    /\ pc[c1] = "success" /\ ~loading[c1]
    /\ \E k \in Calls(c1) : log[c1][k].fault
    /\ user[c2] = NoUser /\ pc[c2] = "returned"

----------------------------------------------------------------------------
(* The Admin page and the requests that change or remove a post *)

\* policy posts_update
posts_update(p, uid) == uid = p.author_id \/ has_role(uid, "admin")

\* a delete policy that lets every signed-in identity through
posts_delete_any(p, uid) == uid # NoUser

\* policy posts_delete
posts_delete(p, uid) == uid = p.author_id \/ has_role(uid, "admin")

\* a delete that leaves the links of the post in post_tags
DeleteRowsNoCascade(rows) ==
  /\ posts' = posts \ rows
  /\ UNCHANGED post_tags

\* DELETE on posts: the rows go, and post_tags.post_id ... ON DELETE CASCADE
\* takes their links with them
DeleteRows(rows) ==
  /\ posts' = posts \ rows
  /\ post_tags' = {l \in post_tags : \A p \in rows : l.post_id # p.id}

\* the most handleDeletePost calls that wait for their response at once
MaxPending == 2

\* useEffect of the Admin page: without a user or without isAdmin it
\* navigates to '/', with isAdmin fetchData() is on its way
AdminEffect ==
  /\ adminPc = "mounted"
  /\ adminPc' = IF adminUser = NoUser \/ ~isAdmin THEN "left" ELSE "fetching"
  /\ UNCHANGED <<adminUser, isAdmin, adminPosts, adminLoading, adminToast,
                 deleting, lastReq, loaded, deleted>>
  /\ UNCHANGED <<dbVars, createVars, readVars, slugVars>>

\* fetchData: the posts the select policy shows this identity; an error
\* of either query is thrown to the catch; finally setLoading(false)
FetchData(up) ==
  /\ adminPc = "fetching"
  /\ LET data == {p.id : p \in {q \in posts : posts_select(q, adminUser)}}
     IN IF up
        THEN /\ adminPosts' = data /\ loaded' = data
             /\ UNCHANGED adminToast
        ELSE /\ adminToast' = "Failed to load admin data"
             /\ UNCHANGED <<adminPosts, loaded>>
  /\ adminLoading' = FALSE
  /\ adminPc' = "shown"
  /\ UNCHANGED <<adminUser, isAdmin, deleting, lastReq, deleted>>
  /\ UNCHANGED <<dbVars, createVars, readVars, slugVars>>

\* handleDeletePost(postId), up to its await: the button of a displayed
\* post is pressed and confirm() is accepted; the request is sent and the
\* handler keeps the posts of the render it was created in
handleDeletePost(postId) ==
  /\ adminPc = "shown" /\ postId \in adminPosts
  /\ Cardinality(deleting) < MaxPending
  /\ deleting' = deleting \cup {[id |-> postId, seen |-> adminPosts]}
  /\ UNCHANGED <<adminUser, isAdmin, adminPc, adminPosts, adminLoading,
                 adminToast, lastReq, loaded, deleted>>
  /\ UNCHANGED <<dbVars, createVars, readVars, slugVars>>

\* handleDeletePost after its await: the backend deletes the rows of the id
\* the delete policy lets this identity delete, which is no error when there
\* is none; if (error) throw error; setPosts(posts.filter(...)) over the
\* posts the handler kept; the catch only toasts
DeleteResponse(req, up) ==
  /\ req \in deleting
  /\ deleting' = deleting \ {req}
  /\ IF up
     THEN /\ DeleteRows({p \in posts :
                           p.id = req.id /\ posts_delete(p, adminUser)})
          /\ lastReq' = [uid |-> adminUser, id |-> req.id]
          /\ adminPosts' = req.seen \ {req.id}
          /\ adminToast' = "Post deleted successfully"
          /\ deleted' = deleted \cup {req.id}
     ELSE /\ adminToast' = "Failed to delete post"
          /\ UNCHANGED <<posts, post_tags, lastReq, adminPosts, deleted>>
  /\ UNCHANGED <<adminUser, isAdmin, adminPc, adminLoading, loaded>>
  /\ UNCHANGED <<tags, storage, createVars, readVars, slugVars>>

\* an UPDATE on posts sent to the backend by identity uid, setting published:
\* the rows of the id the update policy lets this identity change
UpdateRequest(uid, postId, pub) ==
  /\ posts' =
       {IF p.id = postId /\ posts_update(p, uid)
        THEN [p EXCEPT !.published = pub] ELSE p : p \in posts}
  /\ lastReq' = [uid |-> uid, id |-> postId]
  /\ UNCHANGED <<adminUser, isAdmin, adminPc, adminPosts, adminLoading,
                 adminToast, deleting, loaded, deleted>>
  /\ UNCHANGED <<tags, post_tags, storage, createVars, readVars, slugVars>>

----------------------------------------------------------------------------
(* Specification of the Admin page next to post creation: two signed-in    *)
(* authors create a post each while the page is open                       *)

\* the form each author submits: two titles of different slugs, one with
\* tags that repeat a slug and one without tags
AdminForm ==
  [c \in Sessions |->
     IF c = 1 THEN [BaseForm EXCEPT !.tags = Str(<<"a", ",", "A">>)]
     ELSE [BaseForm EXCEPT
             !.title = <<Run(" ", 1), Run("!", TitleMax), Run(" ", 1)>>,
             !.tags = <<>>]]

\* who opens the page, and the isAdmin flag of their client: the
\* administrator, nobody, and an author whose client shows the page or not
AdminSessions ==
  {<<Admin, TRUE>>, <<NoUser, FALSE>>, <<"u1", FALSE>>, <<"u1", TRUE>>}

\* who sends update requests
Updaters == {"u2"}

\* the handleDeletePost calls there can be: the post and the posts kept
DeleteCalls ==
  [id : {PostId(c) : c \in Sessions},
   seen : SUBSET {PostId(c) : c \in Sessions}]

AdminInit ==
  /\ posts = {} /\ tags = {} /\ post_tags = {} /\ storage = {}
  /\ InitCreate(UserOf)
  /\ InitRead(NoUser)
  /\ InitSlug(<<>>)
  /\ adminPc = "mounted" /\ adminPosts = {} /\ adminLoading = TRUE
  /\ adminToast = Null /\ deleting = {} /\ lastReq = NoReq
  /\ loaded = {} /\ deleted = {}
  /\ \E a \in AdminSessions : adminUser = a[1] /\ isAdmin = a[2]

AdminNext ==
  \/ \E c \in Sessions :
       \/ Submit(c, AdminForm[c])
       \/ \E up \in BOOLEAN : InsertPost(c, up)
       \/ \E up \in BOOLEAN : LookupTag(c, up)
       \/ \E up \in BOOLEAN : InsertTag(c, up)
       \/ \E up \in BOOLEAN : LinkTag(c, up)
  \/ AdminEffect
  \/ \E up \in BOOLEAN : FetchData(up)
  \/ \E c \in Sessions : handleDeletePost(PostId(c))
  \/ \E req \in DeleteCalls, up \in BOOLEAN : DeleteResponse(req, up)
  \/ \E uid \in Updaters, c \in Sessions :
       UpdateRequest(uid, PostId(c), FALSE)

SpecAdmin == AdminInit /\ [][AdminNext]_vars

----------------------------------------------------------------------------
(* Properties of the links, of the policies and of the Admin page *)

\* C15: every link refers to a post row and to a tag row, no two links
\* have the same post and tag, and a post that is not in the table has no
\* link left.
C15_LinksWellFormed ==
  /\ \A l \in post_tags :
       /\ \E p \in posts : p.id = l.post_id
       /\ \E t \in tags : t.id = l.tag_id
  /\ \A l1, l2 \in post_tags :
       (l1.post_id = l2.post_id /\ l1.tag_id = l2.tag_id) => l1 = l2
  /\ \A c \in Sessions :
       (\A p \in posts : p.id # PostId(c)) =>
         \A l \in post_tags : l.post_id # PostId(c)

\* the post of a creation that had written a link was deleted while the
\* tag it was linked to stays
C15_Witness ==
  /\ postData[1] = PostId(1) /\ \A p \in posts : p.id # PostId(1)
  /\ \E k \in CallsOf(1, "linkTag") : log[1][k].ok
  /\ PostId(1) \in deleted
  /\ tags # {}

\* C16: a step in which a post row is changed or removed is an update or
\* delete request for that post sent by its author or by an identity with
\* the admin role; so a request of any other identity, whatever the isAdmin
\* flag of its client, leaves the row as it is.
C16_OnlyAuthorOrAdmin ==
  [][\A p \in posts :
       p \notin posts' =>
         /\ lastReq'.id = p.id
         /\ \/ lastReq'.uid = p.author_id
            \/ \E r \in user_roles :
                 r.user_id = lastReq'.uid /\ r.role = "admin"]_vars

\* an author whose client showed the Admin page asked for the deletion of
\* the other author's post and was told it was done; the post is there
C16_Witness ==
  /\ adminUser = "u1" /\ isAdmin
  /\ lastReq = [uid |-> "u1", id |-> PostId(2)]
  /\ PostId(2) \in deleted
  /\ \E p \in posts : p.id = PostId(2) /\ p.author_id = "u2"

\* C19: on the Admin page of the administrator no post whose deletion was
\* reported as done is displayed, and once no deletion is waiting for its
\* response the posts displayed are the posts loaded without those.
C19_DisplayedMinusDeleted ==
  (adminPc = "shown" /\ has_role(adminUser, "admin")) =>
    /\ adminPosts \cap deleted = {}
    /\ deleting = {} => adminPosts = loaded \ deleted

====
